---- MODULE Spec2Model ----
(***************************************************************************)
(* Model of the decyphr profiling engine:                                  *)
(*   - run_analysis_pipeline (main_orchestrator.py): load, overview, the   *)
(*     sixteen pipeline steps, metrics collection and report building;     *)
(*   - _classify_column, _calculate_health_score and the adaptive sampling *)
(*     of the overview plugin (p01_overview/run_analysis.py);              *)
(*   - the final health score of the orchestrator.                         *)
(* Several specifications share the module: Spec (the pipeline, with the   *)
(* report builder); SpecClassify, SpecSample, SpecBalance, SpecHealth and  *)
(* SpecHealthInputs (the pure computations, applied to inputs drawn from   *)
(* bounded sets); SpecOverview and SpecProfile (the overview on one small  *)
(* table); SpecPlugins (the stages with the code of their plugins);        *)
(* SpecMetrics (metrics collection with its failure handler); and SpecRuns *)
(* (two runs that share the Reports directory).                            *)
(***************************************************************************)
EXTENDS Integers, Sequences, FiniteSets, TLC

VARIABLES
    \* ---- run_analysis_pipeline ----
    pc,                \* position in run_analysis_pipeline
    file,              \* the filepath argument: [ext, cond]
    target,            \* the target argument
    ddf,               \* value returned by load_dataframe_from_file
    step,              \* index of the next entry of pipeline_steps
    analysis_results,  \* the result map: stage name -> result
    invoked,           \* stage functions called so far, in call order
    skipped,           \* stages for which the skip branch was taken
    outcome,           \* what each call of a stage function did
    faults,            \* stages that did not return a plain result
    files,             \* numbers N for which Reports/Report_N.html exists
    report_path,       \* value returned by run_analysis_pipeline
    processed_content, \* what create_visuals returned, per section id
    sections,          \* section ids build_html_report put in the report
    \* ---- _classify_column ----
    col,               \* the column being classified
    col_type,          \* the label returned
    \* ---- adaptive sampling ----
    parts,             \* the partitions of the table
    df_sample,         \* rows each partition group contributes
    partition_stats,   \* value returned by _check_partition_balance
    \* ---- health score ----
    table,             \* counts of the profiled table
    stats,             \* dataset_stats written by the overview
    health,            \* dataset_health computed by the orchestrator
    \* ---- concurrent runs ----
    runs,              \* per run: where it is in lines 312-330
    reports            \* numbers N of the Report_N.html in Reports/

vars == <<pc, file, target, ddf, step, analysis_results, invoked, skipped,
          outcome, faults, files, report_path, processed_content, sections,
          col, col_type, parts, df_sample, partition_stats, table, stats,
          health, runs, reports>>

builderVars == <<processed_content, sections>>
pipeVars == <<pc, file, target, ddf, step, analysis_results, invoked,
              skipped, outcome, faults, files, report_path, builderVars>>
classVars == <<col, col_type>>
sampleVars == <<parts, df_sample, partition_stats>>
healthVars == <<table, stats, health>>
runVars == <<runs, reports>>

None == "None"

\* report_path when run_analysis_pipeline returns None; otherwise report_path
\* is the N of Reports/Report_N.html.
NoReport == 0

\* ------------------------------------------------------------------------
\* Bounds
\* ------------------------------------------------------------------------
MaxFaults == 1      \* stages per run that fail, raise, return a message
                    \* or fail to visualise
MaxFiles == 1       \* report files that may exist before the run

\* ------------------------------------------------------------------------
\* run_analysis_pipeline
\* ------------------------------------------------------------------------

\* pipeline_steps: (name, req_target), in list order.
pipeline_steps == <<
    [name |-> "p02_univariate",          req_target |-> FALSE],
    [name |-> "p03_data_quality",        req_target |-> FALSE],
    [name |-> "p04_advanced_outliers",   req_target |-> FALSE],
    [name |-> "p05_missing_values",      req_target |-> FALSE],
    [name |-> "p06_correlations",        req_target |-> FALSE],
    [name |-> "p07_interactions",        req_target |-> FALSE],
    [name |-> "p08_hypothesis_testing",  req_target |-> FALSE],
    [name |-> "p09_pca",                 req_target |-> FALSE],
    [name |-> "p10_clustering",          req_target |-> FALSE],
    [name |-> "p11_target_analysis",     req_target |-> TRUE],
    [name |-> "p12_explainability_shap", req_target |-> TRUE],
    [name |-> "p14_deep_text_analysis",  req_target |-> FALSE],
    [name |-> "p15_timeseries",          req_target |-> FALSE],
    [name |-> "p16_geospatial",          req_target |-> FALSE],
    [name |-> "p17_business_insights",   req_target |-> FALSE],
    [name |-> "p18_decision_engine",     req_target |-> FALSE] >>

NumSteps == Len(pipeline_steps)

StageNames == {pipeline_steps[i].name : i \in 1..NumSteps}

\* Position of a stage in pipeline_steps.
StepOf == [n \in StageNames |->
             CHOOSE i \in 1..NumSteps : pipeline_steps[i].name = n]
StepIndex(n) == StepOf[n]

\* The filepath argument: its extension and the condition of the file.
Files == [ext : {"csv", "xlsx", "other"},
          cond : {"ok", "not_found", "unreadable"}]

\* The target argument: None, the empty string, or a column name.
Targets == {None, "", "target_col"}

\* load_dataframe_from_file: the table, or None on any failure.
load_dataframe_from_file(f) ==
    IF f.ext = "csv"
      THEN IF f.cond = "ok" THEN "ddf" ELSE None
      ELSE IF f.ext = "xlsx"
        THEN IF f.cond = "ok" THEN "ddf" ELSE None
        ELSE None

\* Variant of NotTarget: "target is None" instead of "not target".
NotTarget_IsNone(t) == t = None

\* Python truthiness of the target argument ("not target").
NotTarget(t) == t = None \/ t = ""

\* What a stage function may hand back: a result dict, or an exception.
\*   ok      - a structured success payload
\*   message - {"message": ...} only (precondition not met)
\*   error   - {"error": ...} returned by the plugin itself
\*   raise   - the call raised
StageOutcomes == {"ok", "message", "error", "raise"}

ResultOk == [kind |-> "ok"]
ResultMessage == [kind |-> "message"]
ResultError == [kind |-> "error"]

\* "error" in result
HasError(r) == r.kind = "error"

PipeInit ==
    /\ pc = "load"
    /\ file \in Files
    /\ target \in Targets
    /\ ddf = None
    /\ step = 1
    /\ analysis_results = << >>
    /\ invoked = << >>
    /\ skipped = {}
    /\ outcome = << >>
    /\ faults = 0
    /\ files \in SUBSET (1..MaxFiles)
    /\ report_path = NoReport
    /\ processed_content = << >>
    /\ sections = {}

\* Variant of Load: the check of the loader's result is missing.
Load_NoHalt ==
    /\ pc = "load"
    /\ ddf' = load_dataframe_from_file(file)
    /\ pc' = "overview"
    /\ UNCHANGED <<file, target, step, analysis_results, invoked, skipped,
                   outcome, faults, files, report_path>>

\* Lines 48-51: load the table, halt when the loader returns None.
Load ==
    /\ pc = "load"
    /\ ddf' = load_dataframe_from_file(file)
    /\ pc' = IF ddf' = None THEN "returned" ELSE "overview"
    /\ UNCHANGED <<file, target, step, analysis_results, invoked, skipped,
                   outcome, faults, files, report_path>>

\* Variant of Overview: the check for "error" in the result is missing.
Overview_NoHalt ==
    /\ pc = "overview"
    /\ \E r \in {ResultOk, ResultError} :
         analysis_results' = ("p01_overview" :> r)
    /\ pc' = "stages"
    /\ invoked' = Append(invoked, "p01_overview")
    /\ UNCHANGED <<file, target, ddf, step, skipped, outcome, faults, files,
                   report_path>>

\* Lines 56-62: run the overview; halt when its result carries "error".
\* overview_analysis.analyze catches every exception itself and returns
\* {"error": ...}, so its outcome is a result, never an exception.
Overview ==
    /\ pc = "overview"
    /\ \E r \in {ResultOk, ResultError} :
         /\ analysis_results' = ("p01_overview" :> r)
         /\ pc' = IF HasError(r) THEN "returned" ELSE "stages"
    /\ invoked' = Append(invoked, "p01_overview")
    /\ UNCHANGED <<file, target, ddf, step, skipped, outcome, faults, files,
                   report_path>>

\* Lines 86-88: the skip branch of one loop iteration.
SkipStage ==
    /\ pc = "stages"
    /\ step <= NumSteps
    /\ pipeline_steps[step].req_target /\ NotTarget(target)
    /\ skipped' = skipped \cup {pipeline_steps[step].name}
    /\ step' = step + 1
    /\ UNCHANGED <<pc, file, target, ddf, analysis_results, invoked, outcome,
                   faults, files, report_path>>

\* The entry line 91 or line 94 stores for an outcome of the call.
StoredResult(o) ==
    CASE o = "ok"      -> ResultOk
      [] o = "message" -> ResultMessage
      [] o = "error"   -> ResultError
      [] o = "raise"   -> ResultError

\* Variant of RunStage: no try/except around the call, so an exception
\* leaves run_analysis_pipeline.
RunStage_NoCatch ==
    /\ pc = "stages"
    /\ step <= NumSteps
    /\ ~(pipeline_steps[step].req_target /\ NotTarget(target))
    /\ \E o \in StageOutcomes :
         /\ o # "ok" => faults < MaxFaults
         /\ faults' = IF o = "ok" THEN faults ELSE faults + 1
         /\ outcome' = (pipeline_steps[step].name :> o) @@ outcome
         /\ IF o = "raise"
              THEN /\ pc' = "returned"
                   /\ UNCHANGED <<analysis_results, step>>
              ELSE /\ analysis_results' =
                        (pipeline_steps[step].name :> StoredResult(o))
                            @@ analysis_results
                   /\ step' = step + 1
                   /\ pc' = pc
    /\ invoked' = Append(invoked, pipeline_steps[step].name)
    /\ UNCHANGED <<file, target, ddf, skipped, files, report_path>>

\* Variant of RunStage: a stage that fails or raises is called again.
RunStage_Retry ==
    /\ pc = "stages"
    /\ step <= NumSteps
    /\ ~(pipeline_steps[step].req_target /\ NotTarget(target))
    /\ \E o \in StageOutcomes :
         /\ o # "ok" => faults < MaxFaults
         /\ faults' = IF o = "ok" THEN faults ELSE faults + 1
         /\ outcome' = (pipeline_steps[step].name :> o) @@ outcome
         /\ analysis_results' =
              (pipeline_steps[step].name :> StoredResult(o)) @@ analysis_results
         /\ step' = IF o \in {"error", "raise"} THEN step ELSE step + 1
    /\ invoked' = Append(invoked, pipeline_steps[step].name)
    /\ UNCHANGED <<pc, file, target, ddf, skipped, files, report_path>>

\* Lines 89-94: call the stage, store its result or the caught exception.
RunStage ==
    /\ pc = "stages"
    /\ step <= NumSteps
    /\ ~(pipeline_steps[step].req_target /\ NotTarget(target))
    /\ \E o \in StageOutcomes :
         /\ o # "ok" => faults < MaxFaults
         /\ faults' = IF o = "ok" THEN faults ELSE faults + 1
         /\ outcome' = (pipeline_steps[step].name :> o) @@ outcome
         /\ analysis_results' =
              (pipeline_steps[step].name :> StoredResult(o)) @@ analysis_results
    /\ invoked' = Append(invoked, pipeline_steps[step].name)
    /\ step' = step + 1
    /\ UNCHANGED <<pc, file, target, ddf, skipped, files, report_path>>

\* Line 84: the loop is exhausted.
EndStages ==
    /\ pc = "stages"
    /\ step > NumSteps
    /\ pc' = "metrics"
    /\ UNCHANGED <<file, target, ddf, step, analysis_results, invoked,
                   skipped, outcome, faults, files, report_path>>

\* Lines 104-307: system metrics are stored in the result map, either the
\* full record (line 273) or the fallback of the except branch (line 300).
CollectMetrics ==
    /\ pc = "metrics"
    /\ \E m \in {[kind |-> "metrics"], [kind |-> "metrics_fallback"]} :
         analysis_results' = ("system_metrics" :> m) @@ analysis_results
    /\ pc' = "report"
    /\ UNCHANGED <<file, target, ddf, step, invoked, skipped, outcome, faults,
                   files, report_path>>

\* Lines 317-320: the smallest N >= 1 with no Reports/Report_N.html.
RECURSIVE NextReportNum(_, _)
NextReportNum(fs, n) == IF n \in fs THEN NextReportNum(fs, n + 1) ELSE n

\* Keys of VISUALIZATION_MAP, builder.py lines 35-46.
VISUALIZATION_MAP == StageNames \cup {"p01_overview", "p13_data_drift"}

\* Variant of SkipsSection: only failure entries are passed over.
SkipsSection_ErrorOnly(results) == results.kind = "error"

\* builder.py line 94: the entries the section loop passes over, a failure
\* or a lone message (ResultOk stands for a non-empty result).
SkipsSection(results) == results.kind \in {"error", "message"}

\* The section ids for which line 100 calls create_visuals.
Visualised(all_analysis_results) ==
    {id \in DOMAIN all_analysis_results \cap VISUALIZATION_MAP :
       ~SkipsSection(all_analysis_results[id])}

\* What create_visuals returns: a dict without an error key, a dict with
\* one (its own except branch), or None.
VizOutcomes == {"content", "error", "none"}

\* The ways the calls of create_visuals go for the section ids, with at
\* most k of them not returning content.
RECURSIVE VizChoices(_, _)
VizChoices(ids, k) ==
    IF k = 0 THEN {[id \in ids |-> "content"]}
    ELSE LET fewer == VizChoices(ids, k - 1) IN
         fewer \cup {[f EXCEPT ![id] = o] :
                       f \in fewer, id \in ids, o \in {"error", "none"}}

\* How build_html_report ends: the file is written by line 204, unless
\* the template cannot be loaded (line 77), an asset is missing (line 86)
\* or the save fails (line 207), which the builder catches and returns;
\* or template.render of line 186, which no try encloses, raises.
BuilderOutcomes ==
    {"saved", "template_failed", "asset_missing", "save_failed",
     "render_raised"}

\* build_html_report: the report files afterwards, what create_visuals
\* returned for each section id (line 100), the sections put in the
\* report (lines 102-124), and whether an exception left the builder.
build_html_report(fs, all_analysis_results, output_path, b, viz) ==
    IF b \in {"template_failed", "asset_missing"}
      THEN [files |-> fs, processed_content |-> << >>, sections |-> {},
            raised |-> FALSE]
      ELSE [files |-> IF b = "saved" THEN fs \cup {output_path} ELSE fs,
            processed_content |-> viz,
            sections |-> {id \in DOMAIN viz : viz[id] = "content"},
            raised |-> b = "render_raised"]

\* Lines 312-330: make the Reports directory (os.makedirs, line 315, in no
\* try), pick the report path, build the report, return the path.
BuildReport ==
    /\ pc = "report"
    /\ \E makedirs_ok \in BOOLEAN :
         IF ~makedirs_ok
           THEN /\ pc' = "raised"
                /\ UNCHANGED <<files, report_path, invoked, builderVars>>
           ELSE \E b \in BuilderOutcomes,
                   viz \in VizChoices(Visualised(analysis_results),
                                      MaxFaults - faults) :
                  LET report_num == NextReportNum(files, 1)
                      built == build_html_report(files, analysis_results,
                                                 report_num, b, viz)
                  IN  /\ files' = built.files
                      /\ processed_content' = built.processed_content
                      /\ sections' = built.sections
                      /\ invoked' = Append(invoked, "build_html_report")
                      /\ IF built.raised
                           THEN pc' = "raised" /\ UNCHANGED report_path
                           ELSE pc' = "returned" /\ report_path' = report_num
    /\ UNCHANGED <<file, target, ddf, step, analysis_results, skipped,
                   outcome, faults>>

PipeNext ==
    \/ Load
    \/ Overview
    \/ SkipStage
    \/ RunStage
    \/ EndStages
    \/ CollectMetrics
    \/ BuildReport

\* ------------------------------------------------------------------------
\* Properties of run_analysis_pipeline
\* ------------------------------------------------------------------------

\* The stage function named n has been called.
Invoked(n) == \E k \in 1..Len(invoked) : invoked[k] = n

\* The overview returned a success payload.
OverviewOk ==
    /\ "p01_overview" \in DOMAIN analysis_results
    /\ ~HasError(analysis_results["p01_overview"])

\* The target argument names no column (None or the empty string).
TargetAbsent == target \in {None, ""}

\* C1: when the call of a stage after the overview raises, the result map
\* holds a failure entry for that stage and for no stage that succeeded,
\* the loop goes on, every later stage that is not skipped for want of a
\* target is called, and the successful results stay in the result map.
StageFailureIsolated ==
    \A i \in 1..NumSteps :
      LET n == pipeline_steps[i].name IN
      (n \in DOMAIN outcome /\ outcome[n] = "raise") =>
        /\ n \in DOMAIN analysis_results
        /\ HasError(analysis_results[n])
        /\ analysis_results["p01_overview"] = ResultOk
        /\ \A m \in DOMAIN outcome :
             outcome[m] \in {"ok", "message"} =>
               /\ m \in DOMAIN analysis_results
               /\ analysis_results[m] = StoredResult(outcome[m])
        /\ pc = "stages" => step > i
        /\ pc # "stages" =>
             \A j \in (i + 1)..NumSteps :
               \/ Invoked(pipeline_steps[j].name)
               \/ pipeline_steps[j].req_target /\ TargetAbsent

\* C1 happens: the first step raised, the run returned a report path and
\* the last step's successful result is in the result map.
StageFailureIsolatedWitness ==
    /\ pc = "returned"
    /\ report_path # NoReport
    /\ "p02_univariate" \in DOMAIN outcome
    /\ outcome["p02_univariate"] = "raise"
    /\ analysis_results["p18_decision_engine"] = ResultOk

\* C2: when the overview returns a failure the run aborts: no stage after
\* the overview is called, no report is built and no report path returned.
OverviewFailureAborts ==
    ("p01_overview" \in DOMAIN analysis_results
        /\ HasError(analysis_results["p01_overview"])) =>
      /\ pc = "returned"
      /\ invoked = <<"p01_overview">>
      /\ outcome = << >>
      /\ step = 1
      /\ report_path = NoReport

\* C2 happens: the overview failed and the run has returned.
OverviewFailureAbortsWitness ==
    /\ pc = "returned"
    /\ "p01_overview" \in DOMAIN analysis_results
    /\ HasError(analysis_results["p01_overview"])

\* C3: with no target, a stage that requires one is never called and has no
\* entry in the result map (so no failure entry); once the loop has passed
\* it, it is recorded as skipped; and the run returns a report path.
NoTargetSkipsStage ==
    TargetAbsent =>
      /\ \A i \in 1..NumSteps :
           LET n == pipeline_steps[i].name IN
           pipeline_steps[i].req_target =>
             /\ ~Invoked(n)
             /\ n \notin DOMAIN analysis_results
             /\ n \notin DOMAIN outcome
             /\ (OverviewOk /\ (pc # "stages" \/ step > i)) => n \in skipped
      /\ (pc = "returned" /\ OverviewOk) => report_path # NoReport

\* C3 happens: a run without target skipped both target stages and
\* returned a report path.
NoTargetSkipsStageWitness ==
    /\ target = None
    /\ pc = "returned"
    /\ report_path # NoReport
    /\ skipped = {"p11_target_analysis", "p12_explainability_shap"}

\* C4: when the loader returns no table (unsupported type, file not found,
\* any loading error) the run returns at once: no stage is called, not
\* even the overview, and no report path is returned.
LoadFailureAborts ==
    /\ (pc # "load" /\ (file.ext \notin {"csv", "xlsx"} \/ file.cond # "ok"))
          => ddf = None
    /\ (pc # "load" /\ ddf = None) =>
          /\ pc = "returned"
          /\ invoked = << >>
          /\ analysis_results = << >>
          /\ report_path = NoReport

\* C4 happens: a missing CSV file was loaded and the run has returned.
LoadFailureAbortsWitness ==
    /\ pc = "returned"
    /\ ddf = None
    /\ file = [ext |-> "csv", cond |-> "not_found"]

\* Values of the variables of the other specifications while one runs.
IdleClass == col = None /\ col_type = None
IdleSample == parts = << >> /\ df_sample = << >> /\ partition_stats = << >>
IdleHealth == table = << >> /\ stats = << >> /\ health = << >>
IdleRuns == runs = << >> /\ reports = {}
IdlePipe ==
    /\ pc = "idle" /\ file = None /\ target = None /\ ddf = None
    /\ step = 0 /\ analysis_results = << >> /\ invoked = << >>
    /\ skipped = {} /\ outcome = << >> /\ faults = 0 /\ files = {}
    /\ report_path = NoReport /\ processed_content = << >> /\ sections = {}

Init == PipeInit /\ IdleClass /\ IdleSample /\ IdleHealth /\ IdleRuns

Next ==
    \/ Load /\ UNCHANGED <<runVars, builderVars, classVars, sampleVars, healthVars>>
    \/ Overview /\ UNCHANGED <<runVars, builderVars, classVars, sampleVars, healthVars>>
    \/ SkipStage /\ UNCHANGED <<runVars, builderVars, classVars, sampleVars, healthVars>>
    \/ RunStage /\ UNCHANGED <<runVars, builderVars, classVars, sampleVars, healthVars>>
    \/ EndStages /\ UNCHANGED <<runVars, builderVars, classVars, sampleVars, healthVars>>
    \/ CollectMetrics /\ UNCHANGED <<runVars, builderVars, classVars, sampleVars, healthVars>>
    \/ BuildReport /\ UNCHANGED <<runVars, classVars, sampleVars, healthVars>>

Spec == Init /\ [][Next]_vars

\* ------------------------------------------------------------------------
\* _classify_column (p01_overview/run_analysis.py)
\* ------------------------------------------------------------------------

MaxSample == 5      \* values of the sample handed to the classifier

\* REGEX_PATTERNS, in dict order.  The four patterns exclude one another
\* (only email admits '@', only url ':', only ip_address '.' between
\* digits), so a sampled value matches at most one of them.
REGEX_PATTERNS == <<"email", "url", "ip_address", "phone">>

\* A sampled value is null, matches one pattern, or matches none.
ValueKinds == {"email", "url", "ip_address", "phone", "plain", "null"}

\* What pandas tells about the dtype: string/object, numeric, datetime64,
\* or none of these.
Dtypes == {"object", "numeric", "datetime", "other"}

is_string_or_object_dtype(dtype) == dtype = "object"
is_datetime64_any_dtype(dtype) == dtype = "datetime"
is_numeric_dtype(dtype) == dtype = "numeric"

\* Row counts and distinct counts the classifier is applied to.
ColSizes == {0, 1, 2, 3, 4, 5, 6, 10, 50, 51, 55, 100}
Nuniques == {0, 1, 2, 3, 4, 5, 6, 9, 10, 45, 46, 50, 51, 55, 91, 100}

\* sample_values as counts per kind of value.
SampleLen(sv) ==
    sv["email"] + sv["url"] + sv["ip_address"] + sv["phone"]
        + sv["plain"] + sv["null"]

\* len(sample_values.dropna())
ValidLen(sv) == SampleLen(sv) - sv["null"]

\* Kinds of non-null value in the sample.
KindsIn(sv) == {k \in ValueKinds \ {"null"} : sv[k] > 0}

Samples == {sv \in [ValueKinds -> 0..MaxSample] : SampleLen(sv) <= MaxSample}

\* Line 42: f"Text ({type_name.title()})"
SemanticLabel(type_name) ==
    CASE type_name = "email"      -> "Text (Email)"
      [] type_name = "url"        -> "Text (Url)"
      [] type_name = "ip_address" -> "Text (Ip_Address)"
      [] type_name = "phone"      -> "Text (Phone)"

SemanticLabels == {SemanticLabel(REGEX_PATTERNS[i]) : i \in 1..Len(REGEX_PATTERNS)}

\* Lines 39-42: the first pattern matched by more than 80% of the valid
\* sample, tried from index i on; None when there is none.
RECURSIVE SemanticMatch(_, _)
SemanticMatch(sv, i) ==
    IF i > Len(REGEX_PATTERNS) THEN None
    ELSE IF 10 * sv[REGEX_PATTERNS[i]] > 8 * ValidLen(sv)
      THEN REGEX_PATTERNS[i]
      ELSE SemanticMatch(sv, i + 1)

CATEGORICAL_THRESHOLD == 50

\* Variant of StructuralType: the categorical threshold is tested before
\* the ID checks.
StructuralType_CategoricalFirst(dtype, nunique, col_size) ==
    IF nunique = 1 THEN "Constant"
    ELSE IF nunique = 2 THEN "Boolean"
    ELSE IF is_datetime64_any_dtype(dtype) THEN "Datetime"
    ELSE IF is_numeric_dtype(dtype)
      THEN IF nunique <= CATEGORICAL_THRESHOLD
             THEN "Categorical (Numeric)"
             ELSE "Numeric"
    ELSE IF nunique <= CATEGORICAL_THRESHOLD THEN "Categorical"
    ELSE IF nunique = col_size THEN "Unique ID"
    ELSE IF col_size = 0 THEN "ZeroDivisionError"
    ELSE IF 10 * nunique > 9 * col_size THEN "High Cardinality ID"
    ELSE "Text (High Cardinality)"

\* Variant of StructuralType: the dtype checks come before the cardinality
\* checks.
StructuralType_DtypeFirst(dtype, nunique, col_size) ==
    IF is_datetime64_any_dtype(dtype) THEN "Datetime"
    ELSE IF is_numeric_dtype(dtype)
      THEN IF nunique <= CATEGORICAL_THRESHOLD
             THEN "Categorical (Numeric)"
             ELSE "Numeric"
    ELSE IF nunique = 1 THEN "Constant"
    ELSE IF nunique = 2 THEN "Boolean"
    ELSE IF nunique = col_size THEN "Unique ID"
    ELSE IF col_size = 0 THEN "ZeroDivisionError"
    ELSE IF 10 * nunique > 9 * col_size THEN "High Cardinality ID"
    ELSE IF nunique <= CATEGORICAL_THRESHOLD THEN "Categorical"
    ELSE "Text (High Cardinality)"

\* Variant of StructuralType: the two-values test comes after the dtype
\* tests.
StructuralType_BooleanLast(dtype, nunique, col_size) ==
    IF nunique = 1 THEN "Constant"
    ELSE IF is_datetime64_any_dtype(dtype) THEN "Datetime"
    ELSE IF is_numeric_dtype(dtype)
      THEN IF nunique <= CATEGORICAL_THRESHOLD
             THEN "Categorical (Numeric)"
             ELSE "Numeric"
    ELSE IF nunique = 2 THEN "Boolean"
    ELSE IF nunique = col_size THEN "Unique ID"
    ELSE IF col_size = 0 THEN "ZeroDivisionError"
    ELSE IF 10 * nunique > 9 * col_size THEN "High Cardinality ID"
    ELSE IF nunique <= CATEGORICAL_THRESHOLD THEN "Categorical"
    ELSE "Text (High Cardinality)"

\* Variant of StructuralType: a ratio of exactly 0.90 counts as high
\* cardinality.
StructuralType_RatioInclusive(dtype, nunique, col_size) ==
    IF nunique = 1 THEN "Constant"
    ELSE IF nunique = 2 THEN "Boolean"
    ELSE IF is_datetime64_any_dtype(dtype) THEN "Datetime"
    ELSE IF is_numeric_dtype(dtype)
      THEN IF nunique <= CATEGORICAL_THRESHOLD
             THEN "Categorical (Numeric)"
             ELSE "Numeric"
    ELSE IF nunique = col_size THEN "Unique ID"
    ELSE IF col_size = 0 THEN "ZeroDivisionError"
    ELSE IF 10 * nunique >= 9 * col_size THEN "High Cardinality ID"
    ELSE IF nunique <= CATEGORICAL_THRESHOLD THEN "Categorical"
    ELSE "Text (High Cardinality)"

\* Lines 44-66: the structural checks.  The division of line 60 raises
\* ZeroDivisionError when col_size is 0.
StructuralType(dtype, nunique, col_size) ==
    IF nunique = 1 THEN "Constant"
    ELSE IF nunique = 2 THEN "Boolean"
    ELSE IF is_datetime64_any_dtype(dtype) THEN "Datetime"
    ELSE IF is_numeric_dtype(dtype)
      THEN IF nunique <= CATEGORICAL_THRESHOLD
             THEN "Categorical (Numeric)"
             ELSE "Numeric"
    ELSE IF nunique = col_size THEN "Unique ID"
    ELSE IF col_size = 0 THEN "ZeroDivisionError"
    ELSE IF 10 * nunique > 9 * col_size THEN "High Cardinality ID"
    ELSE IF nunique <= CATEGORICAL_THRESHOLD THEN "Categorical"
    ELSE "Text (High Cardinality)"

\* Variant of _classify_column: the semantic patterns are never tried.
_classify_column_StructuralOnly(dtype, nunique, col_size, sample_values) ==
    StructuralType(dtype, nunique, col_size)

\* Lines 31-66.
_classify_column(dtype, nunique, col_size, sample_values) ==
    IF /\ is_string_or_object_dtype(dtype)
       /\ ValidLen(sample_values) > 0
       /\ SemanticMatch(sample_values, 1) # None
      THEN SemanticLabel(SemanticMatch(sample_values, 1))
      ELSE StructuralType(dtype, nunique, col_size)

\* The columns analyze() hands to the classifier (line 258): nunique counts
\* the distinct non-null values of the column, col_size is the row count,
\* and the sample is the head of the column (the whole column when it is
\* that short).
IsColumn(dtype, nunique, col_size, sv) ==
    /\ nunique + sv["null"] <= col_size
    /\ SampleLen(sv) <= col_size
    /\ Cardinality(KindsIn(sv)) <= nunique
    /\ col_size <= MaxSample =>
         /\ SampleLen(sv) = col_size
         /\ nunique <= ValidLen(sv)

ClassInit ==
    /\ \E dtype \in Dtypes, col_size \in ColSizes, nunique \in Nuniques,
          sv \in Samples :
         /\ IsColumn(dtype, nunique, col_size, sv)
         /\ col = [dtype |-> dtype, nunique |-> nunique,
                   col_size |-> col_size, sample_values |-> sv]
    /\ col_type = None

\* Line 258: classify the column.
Classify ==
    /\ col_type = None
    /\ col_type' = _classify_column(col.dtype, col.nunique, col.col_size,
                                    col.sample_values)
    /\ UNCHANGED col

InitClassify == ClassInit /\ IdlePipe /\ IdleSample /\ IdleHealth /\ IdleRuns

NextClassify == Classify
    /\ UNCHANGED <<runVars, pipeVars, sampleVars, healthVars>>

SpecClassify == InitClassify /\ [][NextClassify]_vars

\* ------------------------------------------------------------------------
\* Properties of _classify_column
\* ------------------------------------------------------------------------

\* The column has been classified.
Classified == col_type # None

\* More than 80% of the non-null sampled values of a string/object column
\* match one of the four patterns.
SemanticHit ==
    /\ col.dtype = "object"
    /\ \E k \in {"email", "url", "ip_address", "phone"} :
         10 * col.sample_values[k] > 8 * ValidLen(col.sample_values)

\* C5 as stated: every column with distinct_count == row_count and
\* row_count > 1 is labelled Unique ID, whatever its dtype and sample.
UniqueIdWhateverDtype ==
    (Classified /\ col.nunique = col.col_size /\ col.col_size > 1) =>
      col_type = "Unique ID"

\* C5 amended: a column with distinct_count == row_count and row_count > 1
\* is never labelled Categorical; it is labelled Unique ID when row_count
\* > 2, its dtype is neither numeric nor datetime and no semantic pattern
\* matches its sample; otherwise the earlier rules decide (semantic label,
\* Boolean for two values, Datetime, Categorical (Numeric) or Numeric).
UniqueIdAfterEarlierRules ==
    (Classified /\ col.nunique = col.col_size /\ col.col_size > 1) =>
      /\ col_type # "Categorical"
      /\ (col.col_size > 2 /\ col.dtype \notin {"numeric", "datetime"}
            /\ ~SemanticHit) => col_type = "Unique ID"
      /\ col_type # "Unique ID" =>
           \/ SemanticHit /\ col_type \in SemanticLabels
           \/ col.col_size = 2 /\ col_type = "Boolean"
           \/ col.dtype = "datetime" /\ col_type = "Datetime"
           \/ col.dtype = "numeric"
                /\ col_type \in {"Categorical (Numeric)", "Numeric"}

\* C5 happens: an all-distinct column of at most 50 values was classified
\* Unique ID.
UniqueIdWitness ==
    /\ col_type = "Unique ID"
    /\ col.nunique = col.col_size
    /\ col.col_size > 2
    /\ col.nunique <= 50

\* C6 as stated: every column with distinct_count == 1 is labelled
\* Constant, also when a semantic pattern matches its sample.
ConstantBeforeSemantic ==
    (Classified /\ col.nunique = 1) => col_type = "Constant"

\* C6 amended: a column with distinct_count == 1 is labelled Constant
\* unless it is a string/object column whose sample matches a semantic
\* pattern; then the semantic label Text (<Kind>) wins over Constant.
ConstantUnlessSemantic ==
    (Classified /\ col.nunique = 1) =>
      IF SemanticHit
        THEN col_type \in SemanticLabels
        ELSE col_type = "Constant"

\* C6 happens: a one-valued column was labelled Constant although all its
\* sampled values are e-mail addresses (its dtype is not string/object).
ConstantWitness ==
    /\ col_type = "Constant"
    /\ col.nunique = 1
    /\ col.sample_values["email"] > 1
    /\ ValidLen(col.sample_values) = col.sample_values["email"]

\* ------------------------------------------------------------------------
\* Adaptive sampling of the overview (p01_overview/run_analysis.py, analyze)
\* ------------------------------------------------------------------------

MaxGroups == 2      \* groups of equally long partitions in a table

SAMPLE_SIZE == 50000

\* A table is a sequence of groups; a group stands for n consecutive
\* partitions of `rows` rows each.
PartCounts == {1, 2, 3, 4999, 5000, 5001}
PartRows == {0, 1, 9, 10, 11, 16666, 16667, 25000, 25001, 50000, 50001}
Groups == [n : PartCounts, rows : PartRows]

RECURSIVE SeqsUpTo(_, _)
SeqsUpTo(S, k) ==
    IF k = 0 THEN {<< >>}
    ELSE LET shorter == SeqsUpTo(S, k - 1) IN
         shorter \cup {Append(q, x) : q \in shorter, x \in S}

Min(a, b) == IF a < b THEN a ELSE b
Max(a, b) == IF a > b THEN a ELSE b

\* ddf.npartitions
RECURSIVE npartitions(_)
npartitions(ps) ==
    IF ps = << >> THEN 0 ELSE Head(ps).n + npartitions(Tail(ps))

\* len(ddf), line 189
RECURSIVE num_rows(_)
num_rows(ps) ==
    IF ps = << >> THEN 0
    ELSE Head(ps).n * Head(ps).rows + num_rows(Tail(ps))

\* Variant of rows_per_part: the quotient is rounded up.
rows_per_part_RoundUp(np) == Max(10, (SAMPLE_SIZE \div np) + 1)

\* Variant of rows_per_part: the floor of 10 rows is missing.
rows_per_part_NoFloor(np) == SAMPLE_SIZE \div np

\* Line 221: max(10, SAMPLE_SIZE // ddf.npartitions)
rows_per_part(np) == Max(10, SAMPLE_SIZE \div np)

\* Variant of select_sample: line 209 does not test the row count.
select_sample_AlwaysHead(ps) ==
    IF npartitions(ps) > 1
      THEN [g \in DOMAIN ps |->
              Min(rows_per_part(npartitions(ps)), ps[g].rows)]
      ELSE [g \in DOMAIN ps |-> Min(SAMPLE_SIZE, ps[g].rows)]

\* Lines 208-226: the rows every partition of each group gives to
\* df_sample (always its first rows: head, or all of them).
select_sample(ps) ==
    IF num_rows(ps) > SAMPLE_SIZE
      THEN IF npartitions(ps) > 1
             THEN [g \in DOMAIN ps |->
                     Min(rows_per_part(npartitions(ps)), ps[g].rows)]
             ELSE [g \in DOMAIN ps |-> Min(SAMPLE_SIZE, ps[g].rows)]
      ELSE [g \in DOMAIN ps |-> ps[g].rows]

\* len(df_sample)
RECURSIVE SampleLength(_, _)
SampleLength(ps, taken) ==
    IF ps = << >> THEN 0
    ELSE Head(ps).n * Head(taken) + SampleLength(Tail(ps), Tail(taken))

SampleInit ==
    /\ parts \in SeqsUpTo(Groups, MaxGroups) \ {<< >>}
    /\ df_sample = << >>
    /\ partition_stats = << >>

\* Lines 207-226: materialise df_sample.
SelectSample ==
    /\ df_sample = << >>
    /\ df_sample' = select_sample(parts)
    /\ UNCHANGED <<parts, partition_stats>>

InitSample == SampleInit /\ IdlePipe /\ IdleClass /\ IdleHealth /\ IdleRuns

NextSample == SelectSample
    /\ UNCHANGED <<runVars, pipeVars, classVars, healthVars>>

SpecSample == InitSample /\ [][NextSample]_vars

\* ------------------------------------------------------------------------
\* Properties of the sampling
\* ------------------------------------------------------------------------

\* df_sample has been materialised.
Sampled == df_sample # << >>

\* C7: a table of at most SAMPLE_SIZE rows is sampled whole, whatever its
\* partitions: len(df_sample) == row_count.
SmallTableSampledWhole ==
    (Sampled /\ num_rows(parts) <= 50000) =>
      SampleLength(parts, df_sample) = num_rows(parts)

\* C7 happens: a table of exactly 50,000 rows in more than one partition
\* was sampled whole.
SmallTableSampledWholeWitness ==
    /\ Sampled
    /\ num_rows(parts) = 50000
    /\ npartitions(parts) > 1
    /\ SampleLength(parts, df_sample) = 50000

\* C8 as stated: with more than SAMPLE_SIZE rows and more than one
\* partition, len(df_sample) <= SAMPLE_SIZE for every partition count.
SampleWithinBudget ==
    (Sampled /\ num_rows(parts) > 50000 /\ npartitions(parts) > 1) =>
      SampleLength(parts, df_sample) <= 50000

\* C8 amended: with more than SAMPLE_SIZE rows and more than one partition,
\* len(df_sample) <= SAMPLE_SIZE when there are at most 5,000 partitions;
\* beyond that the floor of 10 rows per partition bounds it by
\* 10 * partition_count instead.
SampleWithinBudgetOrFloor ==
    (Sampled /\ num_rows(parts) > 50000 /\ npartitions(parts) > 1) =>
      /\ npartitions(parts) <= 5000 =>
           SampleLength(parts, df_sample) <= 50000
      /\ npartitions(parts) > 5000 =>
           SampleLength(parts, df_sample) <= 10 * npartitions(parts)

\* C8 happens: three partitions of more than a third of the budget each
\* were cut to a sample within the budget.
SampleWithinBudgetWitness ==
    /\ Sampled
    /\ parts = <<[n |-> 3, rows |-> 16667]>>
    /\ SampleLength(parts, df_sample) <= 50000

\* C9: with more than SAMPLE_SIZE rows and more than one partition, every
\* partition gives at least min(10, its row count) rows to the sample.
EveryPartitionContributes ==
    (Sampled /\ num_rows(parts) > 50000 /\ npartitions(parts) > 1) =>
      \A g \in DOMAIN parts :
        /\ df_sample[g] >= Min(10, parts[g].rows)
        /\ df_sample[g] <= parts[g].rows

\* C9 happens: among more than 5,000 partitions, those of 11 rows gave 10
\* rows and the one of 9 rows gave all 9.
EveryPartitionContributesWitness ==
    /\ Sampled
    /\ parts = <<[n |-> 5001, rows |-> 11], [n |-> 1, rows |-> 9]>>
    /\ df_sample = <<10, 9>>

\* ------------------------------------------------------------------------
\* Health score: _calculate_health_score of the overview and the final
\* score of run_analysis_pipeline
\* ------------------------------------------------------------------------

MaxRows == 6        \* rows of a profiled table
MaxCols == 3        \* columns of a profiled table

\* Columns of one type (Numeric, Datetime) a table profile counts.
MaxTyped == 2

\* Exact fractions stand for Python floats; scores are kept in tenths and
\* formatted percentages in hundredths, so round(x, 1) and "{:.2f}" become
\* roundings to an integer (half to even, as Python rounds).
Frac(n, d) == [num |-> n, den |-> d]
FracSub(a, b) == Frac(a.num * b.den - b.num * a.den, a.den * b.den)
FracAdd(a, b) == Frac(a.num * b.den + b.num * a.den, a.den * b.den)
FracMul(a, b) == Frac(a.num * b.num, a.den * b.den)

\* Nearest integer to a fraction with positive denominator, ties to even.
RoundHalfEven(a) ==
    LET q == a.num \div a.den
        r2 == 2 * (a.num - q * a.den)
    IN  IF r2 < a.den THEN q
        ELSE IF r2 > a.den THEN q + 1
        ELSE IF q % 2 = 0 THEN q ELSE q + 1

\* Lines 68-72, in tenths: max(0, round(100 - (0.4 m + 0.3 d + 0.3 o), 1)).
_calculate_health_score(missing_pct, duplicate_pct, outlier_pct) ==
    LET score == FracSub(Frac(100, 1),
                   FracAdd(FracMul(missing_pct, Frac(4, 10)),
                     FracAdd(FracMul(duplicate_pct, Frac(3, 10)),
                             FracMul(outlier_pct, Frac(3, 10)))))
    IN  Max(0, RoundHalfEven(FracMul(score, Frac(10, 1))))

\* The values an entry of dataset_stats may hold when the orchestrator
\* reads it: a number, a string "x.xx%" (v its hundredths), a string with
\* a '%' whose rest is no number, a string without '%', None, or no entry
\* under the key at all.
Num(n) == [kind |-> "number", v |-> n]
PctStr(h) == [kind |-> "str_pct", v |-> h]
BadPctStr == [kind |-> "str_bad_pct", v |-> 0]
PlainStr == [kind |-> "str", v |-> 0]
NoneValue == [kind |-> "none", v |-> 0]
Absent == [kind |-> "absent", v |-> 0]

\* p01_stats.get(key, 0), lines 168-171.
Get(val) == IF val.kind = "absent" THEN Num(0) ELSE val

\* f"{pct:.2f}%": the string of the percentage rounded to hundredths.
FormatPct(pct) == PctStr(RoundHalfEven(FracMul(pct, Frac(100, 1))))

\* What a call leaves when it raises instead of returning.
ValueError == [raised |-> "ValueError"]
Raises(x) == "raised" \in DOMAIN x

\* parse_pct, lines 162-166: float(val) of a number, float() of a string
\* with its '%' removed (which raises when the rest is no number), and 0.0
\* for everything else.
parse_pct(val) ==
    CASE val.kind = "number" -> Frac(val.v, 1)
      [] val.kind = "str_pct" -> Frac(val.v, 100)
      [] val.kind = "str_bad_pct" -> ValueError
      [] OTHER -> Frac(0, 1)

\* Score of dataset_health and of dataset_stats after the except branch of
\* lines 208-220 (None in the code; scores are 0..1000 otherwise).
NoScore == -1

\* Variant of dataset_stats: Total Cells counts one cell per row.
dataset_stats_CellPerRow(t) ==
    LET total_cells == t.num_rows * t.num_cols
        missing_pct == IF total_cells > 0
                         THEN Frac(t.missing_count * 100, total_cells)
                         ELSE Frac(0, 1)
        duplicate_pct == IF t.num_rows > 0
                           THEN Frac(t.duplicate_rows * 100, t.num_rows)
                           ELSE Frac(0, 1)
    IN  [NumberOfRows |-> Num(t.num_rows),
         NumberOfColumns |-> t.num_cols,
         TotalCells |-> t.num_rows,
         MissingCells |-> t.missing_count,
         MissingCellsPct |-> FormatPct(missing_pct),
         DuplicateRows |-> t.duplicate_rows,
         DuplicateRowsPct |-> FormatPct(duplicate_pct),
         HealthScore |-> _calculate_health_score(missing_pct, duplicate_pct,
                                                 Frac(0, 1)),
         HealthLabel |-> None]

\* Lines 189-205 and 341-355: the dataset_stats the overview computes from
\* the counts of the table.
dataset_stats(t) ==
    LET total_cells == t.num_rows * t.num_cols
        missing_pct == IF total_cells > 0
                         THEN Frac(t.missing_count * 100, total_cells)
                         ELSE Frac(0, 1)
        duplicate_pct == IF t.num_rows > 0
                           THEN Frac(t.duplicate_rows * 100, t.num_rows)
                           ELSE Frac(0, 1)
    IN  [NumberOfRows |-> Num(t.num_rows),
         NumberOfColumns |-> t.num_cols,
         TotalCells |-> total_cells,
         MissingCells |-> t.missing_count,
         MissingCellsPct |-> FormatPct(missing_pct),
         DuplicateRows |-> t.duplicate_rows,
         DuplicateRowsPct |-> FormatPct(duplicate_pct),
         HealthScore |-> _calculate_health_score(missing_pct, duplicate_pct,
                                                 Frac(0, 1)),
         HealthLabel |-> None]

\* Variant of health_label: the comparisons are strict.
health_label_Strict(health_score) ==
    IF health_score > 900 THEN "Excellent"
    ELSE IF health_score > 800 THEN "Good"
    ELSE IF health_score > 600 THEN "Fair"
    ELSE "Poor"

\* Lines 184-191, on a score in tenths.
health_label(health_score) ==
    IF health_score >= 900 THEN "Excellent"
    ELSE IF health_score >= 800 THEN "Good"
    ELSE IF health_score >= 600 THEN "Fair"
    ELSE "Poor"

\* Variant of final_health_score: the clamp to [0, 100] is missing.
final_health_score_NoClamp(p01_stats, anomaly_count) ==
    LET missing_pct == parse_pct(Get(p01_stats.MissingCellsPct))
        duplicate_pct == parse_pct(Get(p01_stats.DuplicateRowsPct))
        n_rows == Get(p01_stats.NumberOfRows).v
        anomaly_pct == IF n_rows > 0
                         THEN Frac(anomaly_count * 100, n_rows)
                         ELSE Frac(0, 1)
        raw_score == FracSub(FracSub(FracSub(Frac(100, 1), missing_pct),
                                     duplicate_pct),
                             FracMul(Frac(5, 10), anomaly_pct))
    IN  RoundHalfEven(FracMul(raw_score, Frac(10, 1)))

\* Variant of final_health_score: the anomaly term is added, not subtracted.
final_health_score_AnomalyAdded(p01_stats, anomaly_count) ==
    LET missing_pct == parse_pct(Get(p01_stats.MissingCellsPct))
        duplicate_pct == parse_pct(Get(p01_stats.DuplicateRowsPct))
        n_rows == Get(p01_stats.NumberOfRows).v
        anomaly_pct == IF n_rows > 0
                         THEN Frac(anomaly_count * 100, n_rows)
                         ELSE Frac(0, 1)
        raw_score == FracAdd(FracSub(FracSub(Frac(100, 1), missing_pct),
                                     duplicate_pct),
                             FracMul(Frac(5, 10), anomaly_pct))
    IN  Max(0, Min(1000, RoundHalfEven(FracMul(raw_score, Frac(10, 1)))))

\* Lines 168-181, in tenths:
\* max(0, min(100, round(100 - m - d - 0.5 a, 1))).
final_health_score(p01_stats, anomaly_count) ==
    LET missing_pct == parse_pct(Get(p01_stats.MissingCellsPct))
        duplicate_pct == parse_pct(Get(p01_stats.DuplicateRowsPct))
        n_rows == Get(p01_stats.NumberOfRows).v
        anomaly_pct == IF n_rows > 0
                         THEN Frac(anomaly_count * 100, n_rows)
                         ELSE Frac(0, 1)
        raw_score == FracSub(FracSub(FracSub(Frac(100, 1), missing_pct),
                                     duplicate_pct),
                             FracMul(Frac(5, 10), anomaly_pct))
    IN  Max(0, Min(1000, RoundHalfEven(FracMul(raw_score, Frac(10, 1)))))

\* The tables profiled: missing cells are cells of the table, duplicate
\* rows leave at least one row of a non-empty table, and every column
\* counts at most each row as an outlier.
IsTable(t) ==
    /\ t.missing_count <= t.num_rows * t.num_cols
    /\ t.duplicate_rows < Max(t.num_rows, 1)
    /\ t.anomaly_count <= t.num_rows * t.num_cols

HealthInit ==
    /\ \E nr \in 0..MaxRows, nc \in 0..MaxCols :
         \E mc \in 0..(nr * nc), dr \in 0..nr, ac \in 0..(nr * nc) :
           /\ table = [num_rows |-> nr, num_cols |-> nc,
                       missing_count |-> mc, duplicate_rows |-> dr,
                       anomaly_count |-> ac]
           /\ IsTable(table)
    /\ stats = << >>
    /\ health = << >>

\* The overview has written dataset_stats.
HasStats == DOMAIN stats # {}

\* The orchestrator has computed dataset_health.
HasHealth == DOMAIN health # {}

\* Overview, lines 189-205, 311 and 341-355: compute dataset_stats.
OverviewStats ==
    /\ ~HasStats
    /\ stats' = dataset_stats(table)
    /\ UNCHANGED <<table, health>>

\* Lines 168-172: the statements of the try block that raise. parse_pct
\* raises ValueError, and num_rows > 0 raises TypeError when num_rows is
\* a string or None.
health_raises(p01_stats) ==
    \/ Raises(parse_pct(Get(p01_stats.MissingCellsPct)))
    \/ Raises(parse_pct(Get(p01_stats.DuplicateRowsPct)))
    \/ Get(p01_stats.NumberOfRows).kind # "number"

\* Orchestrator, lines 159-220: compute dataset_health from dataset_stats
\* and the anomaly count, and replace the score and label in dataset_stats;
\* when the computation raises, both are None in both places.
FinalHealth ==
    /\ HasStats
    /\ ~HasHealth
    /\ IF health_raises(stats)
         THEN /\ health' = [health_score |-> NoScore, health_label |-> None]
              /\ stats' = [stats EXCEPT !.HealthScore = NoScore,
                                        !.HealthLabel = None]
         ELSE LET health_score ==
                    final_health_score(stats, table.anomaly_count) IN
                /\ health' = [health_score |-> health_score,
                              health_label |-> health_label(health_score)]
                /\ stats' = [stats EXCEPT
                               !.HealthScore = health_score,
                               !.HealthLabel = health_label(health_score)]
    /\ UNCHANGED table

InitHealth == HealthInit /\ IdlePipe /\ IdleClass /\ IdleSample /\ IdleRuns

NextHealth ==
    \/ OverviewStats /\ UNCHANGED <<runVars, pipeVars, classVars, sampleVars>>
    \/ FinalHealth /\ UNCHANGED <<runVars, pipeVars, classVars, sampleVars>>

SpecHealth == InitHealth /\ [][NextHealth]_vars

\* ------------------------------------------------------------------------
\* Properties of the health score
\* ------------------------------------------------------------------------

\* C10: the health score is always in [0, 100] (0..1000 tenths): both the
\* structural score the overview writes and the final score the
\* orchestrator computes, for every table.
HealthScoreInRange ==
    /\ HasStats => (stats.HealthScore >= 0 /\ stats.HealthScore <= 1000)
    /\ HasHealth => (health.health_score >= 0 /\ health.health_score <= 1000)

\* C10 happens: the raw final score of a table was negative (all cells
\* missing, duplicates and outliers on top) and the final score is 0.
HealthScoreInRangeWitness ==
    /\ HasHealth
    /\ table.num_rows > 1
    /\ table.missing_count = table.num_rows * table.num_cols
    /\ table.duplicate_rows > 0
    /\ table.anomaly_count > 0
    /\ health.health_score = 0
    /\ health.health_label = "Poor"

\* The tables that differ from t in one count only, which is higher: the
\* same rows and columns with more missing cells, more duplicate rows or
\* more outliers, i.e. one of missing_pct, duplicate_pct and anomaly_pct
\* raised and the other two held fixed.
RaisedTables(t) ==
    {r \in ({[t EXCEPT !.missing_count = m] :
                m \in (t.missing_count + 1)..(t.num_rows * t.num_cols)}
             \cup {[t EXCEPT !.duplicate_rows = dr] :
                     dr \in (t.duplicate_rows + 1)..t.num_rows}
             \cup {[t EXCEPT !.anomaly_count = ac] :
                     ac \in (t.anomaly_count + 1)..(t.num_rows * t.num_cols)}) :
       IsTable(r)}

\* The structural score of the overview is still in dataset_stats.
HasStructuralScore == HasStats /\ ~HasHealth

\* C11: the health score is monotonically non-increasing in each input:
\* a table with one of missing_pct, duplicate_pct, anomaly_pct raised and
\* the other two unchanged never scores higher, neither in the structural
\* score of the overview nor in the final score of the orchestrator
\* (after rounding and clamping).
HealthScoreMonotone ==
    \A r \in RaisedTables(table) :
      /\ HasStructuralScore =>
           dataset_stats(r).HealthScore <= stats.HealthScore
      /\ HasHealth =>
           final_health_score(dataset_stats(r), r.anomaly_count)
             <= health.health_score

\* C11 happens: the final score of a table was computed, and raising each
\* of the three inputs in turn lowers it strictly.
HealthScoreMonotoneWitness ==
    /\ HasHealth
    /\ \E r \in RaisedTables(table) :
         /\ r.missing_count > table.missing_count
         /\ final_health_score(dataset_stats(r), r.anomaly_count)
              < health.health_score
    /\ \E r \in RaisedTables(table) :
         /\ r.duplicate_rows > table.duplicate_rows
         /\ final_health_score(dataset_stats(r), r.anomaly_count)
              < health.health_score
    /\ \E r \in RaisedTables(table) :
         /\ r.anomaly_count > table.anomaly_count
         /\ final_health_score(dataset_stats(r), r.anomaly_count)
              < health.health_score

\* C12: the final label is a function of the final score alone, by the
\* thresholds Excellent >= 90, Good 80 to < 90, Fair 60 to < 80, Poor
\* below 60 (scores in tenths); exactly one of the four labels is assigned,
\* and it is the label written back into dataset_stats.
HealthLabelByThreshold ==
    HasHealth =>
      /\ health.health_label \in {"Excellent", "Good", "Fair", "Poor"}
      /\ (health.health_label = "Excellent") <=> (health.health_score >= 900)
      /\ (health.health_label = "Good")
           <=> (health.health_score >= 800 /\ health.health_score < 900)
      /\ (health.health_label = "Fair")
           <=> (health.health_score >= 600 /\ health.health_score < 800)
      /\ (health.health_label = "Poor") <=> (health.health_score < 600)
      /\ stats.HealthLabel = health.health_label
      /\ stats.HealthScore = health.health_score

\* C12 happens: a table with one cell in ten missing scores exactly 90.0
\* and is labelled Excellent.
HealthLabelByThresholdWitness ==
    /\ HasHealth
    /\ table.missing_count > 0
    /\ health.health_score = 900
    /\ health.health_label = "Excellent"

\* ------------------------------------------------------------------------
\* The health computation of the orchestrator on any dataset_stats
\* ------------------------------------------------------------------------

\* Values of "Missing Cells (%)" and "Duplicate Rows (%)", line 168-169.
PctValues ==
    {PctStr(h) : h \in {0, 1250, 10000}} \cup {Num(n) : n \in {0, 25, 100}}
      \cup {BadPctStr, PlainStr, NoneValue, Absent}

\* Values of "Number of Rows", line 171.
RowValues == {Num(n) : n \in {0, 4}} \cup {PlainStr, NoneValue, Absent}

\* Outliers counted from the p04 result, lines 115-120.
AnomalyCounts == {0, 1, 4}

\* Line 123: the dataset_stats the orchestrator found in the result map.
HealthInputsInit ==
    /\ \E m \in PctValues, dp \in PctValues, nr \in RowValues :
         stats = [NumberOfRows |-> nr, MissingCellsPct |-> m,
                  DuplicateRowsPct |-> dp, HealthScore |-> NoScore,
                  HealthLabel |-> None]
    /\ \E ac \in AnomalyCounts : table = [anomaly_count |-> ac]
    /\ health = << >>

InitHealthInputs ==
    HealthInputsInit /\ IdlePipe /\ IdleClass /\ IdleSample /\ IdleRuns

NextHealthInputs == FinalHealth
    /\ UNCHANGED <<runVars, pipeVars, classVars, sampleVars>>

SpecHealthInputs == InitHealthInputs /\ [][NextHealthInputs]_vars

\* An entry that is missing (no key, or None) or holds no number.
MissingOrNonNumeric(val) ==
    val.kind \in {"absent", "none", "str", "str_bad_pct"}

BalanceCounts == {1, 2, 3}
BalanceRows == {0, 1, 2, 3, 10000, 70000}
BalanceGroups == [n : BalanceCounts, rows : BalanceRows]

FracDiv(a, b) == Frac(a.num * b.den, a.den * b.num)

\* np.max(partition_sizes) and np.min(partition_sizes)
RECURSIVE max_size(_)
max_size(ps) ==
    IF Len(ps) = 1 THEN Head(ps).rows
    ELSE Max(Head(ps).rows, max_size(Tail(ps)))

RECURSIVE min_size(_)
min_size(ps) ==
    IF Len(ps) = 1 THEN Head(ps).rows
    ELSE Min(Head(ps).rows, min_size(Tail(ps)))

\* Variant of _check_partition_balance: the skew is measured from the
\* smallest partition, (avg - min) / avg.
_check_partition_balance_FromMin(ps) ==
    LET avg_size == Frac(num_rows(ps), npartitions(ps))
        skew == IF avg_size.num > 0
                  THEN FracDiv(FracSub(avg_size, Frac(min_size(ps), 1)),
                               avg_size)
                  ELSE Frac(0, 1)
    IN  [num_partitions |-> npartitions(ps),
         avg_rows_per_partition |-> avg_size.num \div avg_size.den,
         skew |-> RoundHalfEven(FracMul(skew, Frac(100, 1))),
         is_skewed |-> 2 * skew.num > skew.den]

\* Variant of _check_partition_balance: without the guard on the mean, an
\* all-empty table counts as fully skewed.
_check_partition_balance_EmptySkewed(ps) ==
    LET avg_size == Frac(num_rows(ps), npartitions(ps))
        skew == IF avg_size.num > 0
                  THEN FracDiv(FracSub(Frac(max_size(ps), 1), avg_size),
                               avg_size)
                  ELSE Frac(1, 1)
    IN  [num_partitions |-> npartitions(ps),
         avg_rows_per_partition |-> avg_size.num \div avg_size.den,
         skew |-> RoundHalfEven(FracMul(skew, Frac(100, 1))),
         is_skewed |-> 2 * skew.num > skew.den]

\* Lines 152-167: the diagnostics of the partition row counts; skew is
\* round(skew, 2) in hundredths, is_skewed tests the unrounded skew.
_check_partition_balance(ps) ==
    LET avg_size == Frac(num_rows(ps), npartitions(ps))
        skew == IF avg_size.num > 0
                  THEN FracDiv(FracSub(Frac(max_size(ps), 1), avg_size),
                               avg_size)
                  ELSE Frac(0, 1)
    IN  [num_partitions |-> npartitions(ps),
         avg_rows_per_partition |-> avg_size.num \div avg_size.den,
         skew |-> RoundHalfEven(FracMul(skew, Frac(100, 1))),
         is_skewed |-> 2 * skew.num > skew.den]

\* Lines 168-169: what the bare except returns when counting the rows of
\* the partitions fails.
NoPartitionStats == [failed |-> TRUE]

BalanceInit ==
    /\ parts \in SeqsUpTo(BalanceGroups, MaxGroups) \ {<< >>}
    /\ df_sample = << >>
    /\ partition_stats = << >>

\* Line 242: partition_stats = _check_partition_balance(ddf).
CheckPartitionBalance ==
    /\ partition_stats = << >>
    /\ partition_stats' \in {_check_partition_balance(parts), NoPartitionStats}
    /\ UNCHANGED <<parts, df_sample>>

InitBalance == BalanceInit /\ IdlePipe /\ IdleClass /\ IdleHealth /\ IdleRuns

NextBalance ==
    CheckPartitionBalance
    /\ UNCHANGED <<runVars, pipeVars, classVars, healthVars>>

SpecBalance == InitBalance /\ [][NextBalance]_vars

\* The diagnostics were computed.
HasPartitionStats == "skew" \in DOMAIN partition_stats

\* The table of the scenario: partition row counts
\* [10,000, 10,000, 10,000, 70,000].
SkewedScenario == <<[n |-> 3, rows |-> 10000], [n |-> 1, rows |-> 70000]>>

Reads ==
    [n \in {"p17_business_insights", "p18_decision_engine"} |->
       IF n = "p17_business_insights"
         THEN {"p04_advanced_outliers", "p06_correlations", "p10_clustering",
               "p11_target_analysis", "p13_data_drift"}
         ELSE {"p17_business_insights"}]

\* State of a stage in the run: Pending until its loop iteration, then
\* Skipped (line 88), Failed (an error entry) or Succeeded.
StageStatus(n) ==
    IF n \in skipped THEN "Skipped"
    ELSE IF n \in DOMAIN analysis_results
      THEN IF HasError(analysis_results[n]) THEN "Failed" ELSE "Succeeded"
    ELSE "Pending"

Terminal(n) == StageStatus(n) \in {"Succeeded", "Skipped", "Failed"}

\* C15: a stage that reads entries of other stages is invoked strictly
\* after every stage it reads reached a terminal state: p17 after p04,
\* p06, p10, p11 and p13_data_drift, p18 after p17.
InvokedAfterItsReads ==
    [][\A n \in DOMAIN Reads :
         (~Invoked(n) /\ Invoked(n)') => \A r \in Reads[n] : Terminal(r)]_vars

\* The calls of the stages of pipeline_steps, in call order.
StageCalls == SelectSeq(invoked, LAMBDA n : n \in StageNames)

\* C16: every stage goes from Pending to exactly one of Succeeded,
\* Skipped, Failed. Stages run one at a time in the order of the list and
\* each at most once, so none is invoked again: the calls made so far are
\* in strictly increasing list position. Every stage before the loop
\* position is in the one terminal state its only iteration gave it
\* (Skipped without a call, Failed or Succeeded as the call went), and
\* every other stage is Pending and was not called.
StageLifecycle ==
    LET calls == StageCalls IN
    /\ \A i \in 1..(Len(calls) - 1) :
         StepIndex(calls[i]) < StepIndex(calls[i + 1])
    /\ {calls[i] : i \in 1..Len(calls)} = DOMAIN outcome
    /\ \A k \in 1..NumSteps :
         LET n == pipeline_steps[k].name IN
           IF k < step
             THEN /\ Terminal(n)
                  /\ (n \in skipped) <=> (n \notin DOMAIN outcome)
                  /\ (n \in skipped) <=> (n \notin DOMAIN analysis_results)
                  /\ StageStatus(n) = "Failed"
                       <=> (n \notin skipped /\ outcome[n] \in {"error", "raise"})
             ELSE StageStatus(n) = "Pending" /\ n \notin DOMAIN outcome

\* C16 happens: a stage failed, a stage was skipped, and the loop went on
\* to the end of the list with the later stages succeeding.
StageLifecycleWitness ==
    /\ pc = "metrics"
    /\ \E n \in StageNames : StageStatus(n) = "Failed"
    /\ \E n \in StageNames : StageStatus(n) = "Skipped"
    /\ StageStatus("p18_decision_engine") = "Succeeded"
    /\ Len(StageCalls) = NumSteps - Cardinality(skipped)

\* ------------------------------------------------------------------------
\* Properties of the report building
\* ------------------------------------------------------------------------

\* build_html_report was called and wrote the report file.
ReportBuilt ==
    /\ Invoked("build_html_report")
    /\ pc = "returned"
    /\ report_path \in files

\* The stage has no entry in the result map, a failure entry, or an entry
\* that is an informational message only.
NoShowableResult(n) ==
    \/ n \notin DOMAIN analysis_results
    \/ analysis_results[n].kind \in {"error", "message"}

ReturnedReportExists ==
    (pc = "returned" /\ OverviewOk) =>
      (report_path # NoReport /\ report_path \in files)

\* decyphr/__init__.py lines 50-54: analyze calls run_analysis_pipeline
\* outside any try, so an exception that leaves the pipeline leaves analyze.
AnalyzeRaised == pc = "raised"

\* C19: on a valid dataset analyze runs to completion without raising,
\* whatever happens in the stages, in the metrics collection and in the
\* report building.
AnalyzeNeverRaises == OverviewOk => ~AnalyzeRaised

\* ------------------------------------------------------------------------
\* The classifier on a table without rows
\* ------------------------------------------------------------------------

\* C20: when row_count == 0 the classifier does not raise and returns an
\* Unsupported or Unknown fallback label, never an ID or category label.
EmptyColumnFallback ==
    (Classified /\ col.col_size = 0) =>
      col_type \in {"Unsupported", "Unknown"}

\* ------------------------------------------------------------------------
\* Precedence of the structural labels
\* ------------------------------------------------------------------------

\* C22: two distinct values dominate the dtype: a numeric column with
\* nunique == 2 is Boolean, never Categorical (Numeric) or Numeric, and a
\* datetime column with nunique == 2 is Boolean, never Datetime.
TwoValuesDominateDtype ==
    (/\ Classified
     /\ col.nunique = 2
     /\ is_numeric_dtype(col.dtype) \/ is_datetime64_any_dtype(col.dtype))
      => col_type = "Boolean"

\* C22 happens: a numeric column of 100 rows with two distinct values was
\* classified Boolean.
TwoValuesDominateDtypeWitness ==
    /\ Classified
    /\ col.dtype = "numeric"
    /\ col.nunique = 2
    /\ col.col_size = 100
    /\ col_type = "Boolean"

\* C23: for a column that is neither numeric nor datetime, with no
\* semantic match and 2 < nunique < col_size: the label is High
\* Cardinality ID when nunique / col_size > 0.90, even with nunique <= 50;
\* Categorical only when the ratio is <= 0.90 and nunique <= 50; and
\* Text (High Cardinality) otherwise.
RatioBeforeCategorical ==
    (/\ Classified
     /\ ~is_numeric_dtype(col.dtype)
     /\ ~is_datetime64_any_dtype(col.dtype)
     /\ ~SemanticHit
     /\ col.nunique > 2
     /\ col.nunique < col.col_size)
      => col_type =
           IF 10 * col.nunique > 9 * col.col_size THEN "High Cardinality ID"
           ELSE IF col.nunique <= 50 THEN "Categorical"
           ELSE "Text (High Cardinality)"

\* C23 happens: 46 distinct values in 50 rows, below the categorical
\* threshold, were classified High Cardinality ID.
RatioBeforeCategoricalWitness ==
    /\ Classified
    /\ col.dtype = "object"
    /\ col.nunique = 46
    /\ col.col_size = 50
    /\ col_type = "High Cardinality ID"

\* ------------------------------------------------------------------------
\* One column of a small table, from the overview to the health label
\* ------------------------------------------------------------------------

\* Row counts of the small tables; both are at most CATEGORICAL_THRESHOLD.
OverviewRows == {2, 10}

\* Distinct counts of the column looked at.
OverviewNuniques == {1, 2, 3}

\* Missing cells, duplicate rows and outliers of the small tables.
OverviewCounts == {0, 1}

\* p04, lines 30-35, and orchestrator, lines 115-121: outliers are counted
\* in the columns of type Numeric only, and a column of num_rows <=
\* CATEGORICAL_THRESHOLD values is never Numeric, so that the anomaly
\* count of such a table is 0.
total_outliers(nr, ac) == IF nr <= CATEGORICAL_THRESHOLD THEN 0 ELSE ac

\* A table and one of its columns: the column has as many values as the
\* table has rows, a table without missing cells has no null in the
\* column, and a one-column table with fewer distinct values than rows
\* has duplicate rows.
OverviewInit ==
    /\ \E nr \in OverviewRows, nc \in 1..MaxCols,
          mc \in OverviewCounts, dr \in OverviewCounts,
          ac \in OverviewCounts,
          dtype \in Dtypes, nunique \in OverviewNuniques, sv \in Samples :
         /\ IsColumn(dtype, nunique, nr, sv)
         /\ mc = 0 => sv["null"] = 0
         /\ (nc = 1 /\ nunique + 1 < nr) => dr > 0
         /\ table = [num_rows |-> nr, num_cols |-> nc,
                     missing_count |-> mc, duplicate_rows |-> dr,
                     anomaly_count |-> total_outliers(nr, ac)]
         /\ IsTable(table)
         /\ col = [dtype |-> dtype, nunique |-> nunique,
                   col_size |-> nr, sample_values |-> sv]
    /\ col_type = None
    /\ stats = << >>
    /\ health = << >>

InitOverview == OverviewInit /\ IdlePipe /\ IdleSample /\ IdleRuns

NextOverview ==
    \/ Classify /\ UNCHANGED <<runVars, pipeVars, sampleVars, healthVars>>
    \/ OverviewStats /\ UNCHANGED <<runVars, pipeVars, classVars, sampleVars>>
    \/ FinalHealth /\ UNCHANGED <<runVars, pipeVars, classVars, sampleVars>>

SpecOverview == InitOverview /\ [][NextOverview]_vars

\* A 10-row table without missing cells and duplicate rows, one column of
\* which holds the same string in every row; the column was classified and
\* the health of the table computed.
ConstantStringScenario ==
    /\ Classified
    /\ HasHealth
    /\ table.num_rows = 10
    /\ table.missing_count = 0
    /\ table.duplicate_rows = 0
    /\ col.dtype = "object"
    /\ col.nunique = 1
    /\ col.sample_values["null"] = 0

\* C21 as stated: in a 10-row table without missing cells and duplicate
\* rows, a column of identical strings is classified Constant, whatever the
\* string, and the health label is Excellent.
ConstantStringExcellent ==
    ConstantStringScenario =>
      /\ col_type = "Constant"
      /\ health.health_label = "Excellent"
      /\ stats.HealthLabel = "Excellent"

\* C21 amended: in that table the health label is Excellent, and the
\* column is classified Constant unless its string matches a semantic
\* pattern; then it gets the semantic label Text (<Kind>).
ConstantStringExcellentUnlessSemantic ==
    ConstantStringScenario =>
      /\ IF SemanticHit
           THEN col_type \in SemanticLabels
           ELSE col_type = "Constant"
      /\ health.health_label = "Excellent"
      /\ stats.HealthLabel = "Excellent"

\* C21 happens: a column of one plain string in a 10-row table was
\* classified Constant and the health label is Excellent.
ConstantStringExcellentWitness ==
    /\ ConstantStringScenario
    /\ col.sample_values["plain"] = SampleLen(col.sample_values)
    /\ col.sample_values["plain"] > 0
    /\ col_type = "Constant"
    /\ health.health_label = "Excellent"
    /\ stats.HealthScore = 1000

\* ------------------------------------------------------------------------
\* The first part of the overview on one partitioned table
\* ------------------------------------------------------------------------

\* Small partitions, empty ones among them.
ProfileCounts == {1, 2}
ProfileRows == {0, 1, 2}
ProfileGroups == [n : ProfileCounts, rows : ProfileRows]

\* A partitioned table with its counts of missing cells and duplicate
\* rows; num_rows is len(ddf), the sum of the partition row counts.
ProfileInit ==
    /\ parts \in SeqsUpTo(ProfileGroups, MaxGroups) \ {<< >>}
    /\ \E nc \in 0..MaxCols, mc \in OverviewCounts, dr \in OverviewCounts :
         /\ table = [num_rows |-> num_rows(parts), num_cols |-> nc,
                     missing_count |-> mc, duplicate_rows |-> dr,
                     anomaly_count |-> 0]
         /\ IsTable(table)
    /\ df_sample = << >>
    /\ partition_stats = << >>
    /\ stats = << >>
    /\ health = << >>

InitProfile == ProfileInit /\ IdlePipe /\ IdleClass /\ IdleRuns

\* analyze(), lines 189-355, in the order of the code: the sample (207-226),
\* the partition diagnostics (242), the dataset statistics (341-355).
NextProfile ==
    \/ SelectSample /\ UNCHANGED <<runVars, pipeVars, classVars, healthVars>>
    \/ /\ df_sample # << >>
       /\ CheckPartitionBalance
       /\ UNCHANGED <<runVars, pipeVars, classVars, healthVars>>
    \/ /\ partition_stats # << >>
       /\ OverviewStats
       /\ UNCHANGED <<runVars, pipeVars, classVars, sampleVars>>

SpecProfile == InitProfile /\ [][NextProfile]_vars

\* The source is empty: zero rows in all, every partition empty.
EmptySource == num_rows(parts) = 0

Profiles == [numeric : 0..MaxTyped, datetime : 0..MaxTyped,
             has_target : BOOLEAN]

\* p11, lines 79-85: the keys of feature_importances in the order of the
\* dict, ascending by importance (the last one is the most important).
Importances == {<< >>, <<"x1">>, <<"x2", "x1">>}

\* The call raised instead of returning.
Raised == [kind |-> "raise"]

\* Variant of p04_analyze: a table without Numeric column is a failure.
p04_analyze_NoColumnsFails(ov) ==
    IF ov.numeric = 0
      THEN {ResultError}
      ELSE {[kind |-> "ok", total_outliers |-> k] : k \in 0..1}

\* p04, lines 25-66: the results p04 may return (the outliers counted in
\* the Numeric columns, or the message when there is none).
p04_analyze(ov) ==
    IF ov.numeric = 0
      THEN {ResultMessage}
      ELSE {[kind |-> "ok", total_outliers |-> k] : k \in 0..1}

\* p09, lines 31-43.
p09_analyze(ov) ==
    IF ov.numeric < 2 THEN {ResultMessage} ELSE {ResultOk}

\* p10, lines 32-48 and 75-89.
p10_analyze(ov, target_column) ==
    IF ~NotTarget(target_column) THEN {ResultMessage}
    ELSE IF ov.numeric < 2 THEN {ResultMessage}
    ELSE {[kind |-> "ok", suggested_k |-> k] : k \in {3, 4}}

\* p11, lines 30-37 and 79-89.
p11_analyze(ov, target_column) ==
    IF NotTarget(target_column) THEN {ResultMessage}
    ELSE IF ~ov.has_target THEN {ResultError}
    ELSE {[kind |-> "ok", feature_importances |-> fi] : fi \in Importances}

\* Variant of p12_analyze: no try around the body, so the KeyError of
\* df_computed[target_column] leaves the plugin.
p12_analyze_NoTry(ov, target_column) ==
    IF NotTarget(target_column) THEN {ResultMessage}
    ELSE IF ~ov.has_target THEN {Raised}
    ELSE {ResultOk}

\* p12, lines 30-93: df_computed[target_column] (line 54) raises KeyError
\* for a target that is no column, inside the try of line 39, and the
\* except of line 90 returns {"error": ...}.
p12_analyze(ov, target_column) ==
    IF NotTarget(target_column) THEN {ResultMessage}
    ELSE IF ~ov.has_target THEN {ResultError}
    ELSE {ResultOk}

\* p15, lines 30-55.
p15_analyze(ov) ==
    IF ov.datetime # 1 THEN {ResultMessage}
    ELSE IF ov.numeric = 0 THEN {ResultMessage}
    ELSE {ResultOk}

\* "key in results[name]" for an entry that may be missing.
HasKey(results, name, key) ==
    /\ name \in DOMAIN results
    /\ key \in DOMAIN results[name]

\* sorted(fi.items(), key=..., reverse=True)[:3], names only, for a dict in
\* ascending order of importance.
RECURSIVE TopThree(_)
TopThree(fi) ==
    IF fi = << >> THEN << >>
    ELSE IF Len(fi) > 3 THEN TopThree(Tail(fi))
    ELSE <<fi[Len(fi)]>> \o TopThree(SubSeq(fi, 1, Len(fi) - 1))

\* p17, lines 10-125: the insights, by category, in the order of the code.
p17_analyze(results) ==
    LET risk ==
          IF /\ HasKey(results, "p04_advanced_outliers", "total_outliers")
             /\ results["p04_advanced_outliers"].total_outliers > 0
            THEN <<[category |-> "Risk & Quality", names |-> << >>]>>
            ELSE << >>
        drivers ==
          IF /\ HasKey(results, "p11_target_analysis", "feature_importance")
             /\ results["p11_target_analysis"].feature_importance # << >>
            THEN <<[category |-> "Key Drivers",
                    names |-> TopThree(
                      results["p11_target_analysis"].feature_importance)]>>
            ELSE << >>
        segments ==
          IF HasKey(results, "p10_clustering", "suggested_k")
            THEN <<[category |-> "Customer Segmentation", names |-> << >>]>>
            ELSE << >>
        drift ==
          IF /\ HasKey(results, "p13_data_drift", "drift_detected")
             /\ results["p13_data_drift"].drift_detected
            THEN <<[category |-> "Operational Health", names |-> << >>]>>
            ELSE << >>
    IN  [kind |-> "ok", insights |-> risk \o drivers \o segments \o drift]

\* What the call of a stage gives on a table, from the code of its plugin;
\* the stages without a case here return their payload.
PluginResults(name, ov, target_column, results) ==
    CASE name = "p04_advanced_outliers"   -> p04_analyze(ov)
      [] name = "p09_pca"                 -> p09_analyze(ov)
      [] name = "p10_clustering"          -> p10_analyze(ov, target_column)
      [] name = "p11_target_analysis"     -> p11_analyze(ov, target_column)
      [] name = "p12_explainability_shap" -> p12_analyze(ov, target_column)
      [] name = "p15_timeseries"          -> p15_analyze(ov)
      [] name = "p17_business_insights"   -> {p17_analyze(results)}
      [] OTHER                            -> {ResultOk}

\* Lines 89-94 with the plugin's own code deciding the result.
AnalyzeStage ==
    /\ pc = "stages"
    /\ step <= NumSteps
    /\ ~(pipeline_steps[step].req_target /\ NotTarget(target))
    /\ \E r \in PluginResults(pipeline_steps[step].name, ddf, target,
                              analysis_results) :
         /\ outcome' = (pipeline_steps[step].name :> r.kind) @@ outcome
         /\ analysis_results' =
              (pipeline_steps[step].name :>
                 IF r = Raised THEN ResultError ELSE r) @@ analysis_results
    /\ invoked' = Append(invoked, pipeline_steps[step].name)
    /\ step' = step + 1
    /\ UNCHANGED <<pc, file, target, ddf, skipped, faults, files,
                   report_path>>

\* top_feature = "N/A"
NoTopFeature == [name |-> "N/A"]

\* Orchestrator, lines 125-150: the most important feature, from p11's
\* feature_importances (its last key) or else from the text of p17's
\* Key Drivers insight (the first name it lists).
top_feature(results) ==
    IF /\ HasKey(results, "p11_target_analysis", "feature_importances")
       /\ results["p11_target_analysis"].feature_importances # << >>
      THEN LET importances ==
                 results["p11_target_analysis"].feature_importances
           IN  [name |-> importances[Len(importances)]]
    ELSE IF HasKey(results, "p17_business_insights", "insights")
      THEN LET insights == results["p17_business_insights"].insights
               key == {k \in 1..Len(insights) :
                         insights[k].category = "Key Drivers"}
           IN  IF key = {} THEN NoTopFeature
               ELSE [name |->
                       insights[CHOOSE k \in key : \A m \in key : k <= m]
                         .names[1]]
    ELSE NoTopFeature

\* len(p17_results.get("insights", []))
number_of_insights(results) ==
    IF HasKey(results, "p17_business_insights", "insights")
      THEN Len(results["p17_business_insights"].insights)
      ELSE 0

\* Lines 104-273: the system metrics computed from the result map.
CollectSystemMetrics ==
    /\ pc = "metrics"
    /\ analysis_results' =
         ("system_metrics" :>
            [kind |-> "metrics",
             number_of_insights_generated |->
               number_of_insights(analysis_results),
             top_feature_importance |-> top_feature(analysis_results)])
           @@ analysis_results
    /\ pc' = "report"
    /\ UNCHANGED <<file, target, ddf, step, invoked, skipped, outcome, faults,
                   files, report_path>>

\* A run whose table was loaded and whose overview succeeded.  A CSV file
\* is read with dtype='object' (dask_backend, line 40), so that none of its
\* columns gets the type Numeric or Datetime.  Every stage does what its
\* code does on the table: the budget of stages failing for other reasons
\* is spent.
PluginsInit ==
    /\ pc = "stages"
    /\ file \in {f \in Files : f.cond = "ok" /\ f.ext \in {"csv", "xlsx"}}
    /\ target \in Targets
    /\ ddf \in Profiles
    /\ file.ext = "csv" => (ddf.numeric = 0 /\ ddf.datetime = 0)
    /\ ddf.has_target => target = "target_col"
    /\ step = 1
    /\ analysis_results = ("p01_overview" :> ResultOk)
    /\ invoked = <<"p01_overview">>
    /\ skipped = {}
    /\ outcome = << >>
    /\ faults = MaxFaults
    /\ files \in SUBSET (1..MaxFiles)
    /\ report_path = NoReport
    /\ processed_content = << >>
    /\ sections = {}

InitPlugins == PluginsInit /\ IdleClass /\ IdleSample /\ IdleHealth /\ IdleRuns

NextPlugins ==
    \/ SkipStage
         /\ UNCHANGED <<runVars, builderVars, classVars, sampleVars, healthVars>>
    \/ AnalyzeStage
         /\ UNCHANGED <<runVars, builderVars, classVars, sampleVars, healthVars>>
    \/ EndStages
         /\ UNCHANGED <<runVars, builderVars, classVars, sampleVars, healthVars>>
    \/ CollectSystemMetrics
         /\ UNCHANGED <<runVars, builderVars, classVars, sampleVars, healthVars>>
    \/ BuildReport /\ UNCHANGED <<runVars, classVars, sampleVars, healthVars>>

SpecPlugins == InitPlugins /\ [][NextPlugins]_vars

\* The loop has passed the stage n.
Passed(n) == pc # "stages" \/ step > StepOf[n]

\* The stage n was called, stored the result kind k as its own and the
\* call raised nothing.
Recorded(n, k) ==
    /\ Invoked(n)
    /\ outcome[n] = k
    /\ analysis_results[n].kind = k

\* The precondition of a stage on the columns is not met.
Unqualified(n) ==
    CASE n = "p04_advanced_outliers" -> ddf.numeric = 0
      [] n = "p09_pca"               -> ddf.numeric < 2
      [] n = "p15_timeseries"        -> ddf.datetime # 1 \/ ddf.numeric = 0

\* C26: p04 without Numeric column, p09 with fewer than 2 Numeric columns
\* and p15 without exactly one Datetime column or without Numeric column
\* record a message, not a failure, and the loop goes on to the next stage.
PreconditionGivesMessage ==
    \A n \in {"p04_advanced_outliers", "p09_pca", "p15_timeseries"} :
      (Passed(n) /\ Unqualified(n)) =>
        /\ Recorded(n, "message")
        /\ ~HasError(analysis_results[n])
        /\ (pc # "stages" \/ step > NumSteps) =>
             \A j \in (StepOf[n] + 1)..NumSteps :
               \/ Invoked(pipeline_steps[j].name)
               \/ pipeline_steps[j].req_target /\ TargetAbsent

\* C26 happens: on a table with one Numeric and two Datetime columns p04
\* found its columns, p09 and p15 recorded a message, and the run returned
\* a report path.
PreconditionGivesMessageWitness ==
    /\ pc = "returned"
    /\ report_path # NoReport
    /\ ddf.numeric = 1
    /\ ddf.datetime = 2
    /\ Recorded("p04_advanced_outliers", "ok")
    /\ Recorded("p09_pca", "message")
    /\ Recorded("p15_timeseries", "message")
    /\ Invoked("p18_decision_engine")

\* A target is supplied that names no column of the table.
TargetNotAColumn == ~TargetAbsent /\ ~ddf.has_target

\* C27: with a target that is no column, p11 and p12 each end with a
\* failure result of their own and raise nothing; every other stage is
\* called, and the run returns a report path.
MissingTargetFailsTargetStages ==
    TargetNotAColumn =>
      /\ \A n \in {"p11_target_analysis", "p12_explainability_shap"} :
           Passed(n) => Recorded(n, "error")
      /\ \A j \in 1..NumSteps :
           Passed(pipeline_steps[j].name) =>
             /\ Invoked(pipeline_steps[j].name)
             /\ outcome[pipeline_steps[j].name] # "raise"
      /\ skipped = {}
      /\ pc = "returned" => report_path # NoReport

\* C27 happens: a run with a target that is no column returned a report
\* path with failure entries for p11 and p12 and a result of the last
\* stage.
MissingTargetFailsTargetStagesWitness ==
    /\ TargetNotAColumn
    /\ pc = "returned"
    /\ report_path # NoReport
    /\ Recorded("p11_target_analysis", "error")
    /\ Recorded("p12_explainability_shap", "error")
    /\ Recorded("p18_decision_engine", "ok")

\* The Key Drivers insights of p17.
KeyDrivers ==
    LET insights == analysis_results["p17_business_insights"].insights IN
    {k \in 1..Len(insights) : insights[k].category = "Key Drivers"}

\* C28: whenever p11 succeeded with non-empty feature importances, p17
\* emits exactly one Key Drivers insight naming the top features, and the
\* top_feature_importance metric names the most important feature.
KeyDriversReported ==
    (/\ HasKey(analysis_results, "p11_target_analysis",
               "feature_importances")
     /\ analysis_results["p11_target_analysis"].feature_importances # << >>)
      =>
        LET importances ==
              analysis_results["p11_target_analysis"].feature_importances
        IN  /\ Passed("p17_business_insights") =>
                 /\ Cardinality(KeyDrivers) = 1
                 /\ \A k \in KeyDrivers :
                      analysis_results["p17_business_insights"]
                        .insights[k].names = TopThree(importances)
            /\ "system_metrics" \in DOMAIN analysis_results =>
                 analysis_results["system_metrics"].top_feature_importance
                   = [name |-> importances[Len(importances)]]

\* ------------------------------------------------------------------------
\* Metrics collection with its failure handler
\* ------------------------------------------------------------------------

\* Lines 159-220: dataset_stats as the health block leaves it.
after_health_block(p01_stats, anomaly_count) ==
    IF health_raises(p01_stats)
      THEN [p01_stats EXCEPT !.HealthScore = NoScore, !.HealthLabel = None]
      ELSE LET health_score == final_health_score(p01_stats, anomaly_count)
           IN  [p01_stats EXCEPT !.HealthScore = health_score,
                                 !.HealthLabel = health_label(health_score)]

\* Lines 296-307: a statement of lines 104-272 outside the inner try
\* raised, so system_metrics was not stored yet; the handler stores
\* dataset_statistics = p01_stats as it is at that moment (untouched when
\* the exception came before the health block, updated when it came after)
\* and a dataset_health of nulls.
MetricsFallback ==
    /\ HasStats
    /\ ~HasHealth
    /\ health' = [health_score |-> NoScore, health_label |-> None]
    /\ \E after_block \in BOOLEAN :
         stats' = IF after_block
                    THEN after_health_block(stats, table.anomaly_count)
                    ELSE stats
    /\ UNCHANGED table

NextMetrics ==
    \/ OverviewStats /\ UNCHANGED <<runVars, pipeVars, classVars, sampleVars>>
    \/ FinalHealth /\ UNCHANGED <<runVars, pipeVars, classVars, sampleVars>>
    \/ MetricsFallback
         /\ UNCHANGED <<runVars, pipeVars, classVars, sampleVars>>

SpecMetrics == InitHealth /\ [][NextMetrics]_vars

\* C29: once system_metrics is stored, the Health Score and Health Label
\* of the overview's dataset_stats equal health_score and health_label of
\* dataset_health (both final values or both null), on every path through
\* metrics collection.
HealthNeverStale ==
    HasHealth =>
      /\ stats.HealthScore = health.health_score
      /\ stats.HealthLabel = health.health_label

\* ------------------------------------------------------------------------
\* Two runs that share the Reports directory
\* ------------------------------------------------------------------------

\* The runs going on at the same time.
NumRuns == 2

\* Reports in the directory before the runs start.
MaxReports == 2
Runs == 1..NumRuns

\* A run at line 312: metrics are collected, no report number looked at.
RunStart == [pc |-> "makedirs", report_num |-> 1, wrote |-> FALSE,
             overwrote |-> FALSE]

RunsInit ==
    /\ runs = [r \in Runs |-> RunStart]
    /\ reports \in SUBSET (1..MaxReports)

\* Line 315: os.makedirs(output_dir, exist_ok=True); it raises when the
\* directory cannot be made.
MakeDirs(r) ==
    /\ runs[r].pc = "makedirs"
    /\ \E ok \in BOOLEAN :
         runs' = [runs EXCEPT ![r].pc = IF ok THEN "search" ELSE "raised"]
    /\ UNCHANGED reports

\* Lines 318-320: one test of os.path.exists for the current report_num,
\* and the end of the loop with report_path fixed.
Probe(r) ==
    /\ runs[r].pc = "search"
    /\ runs' = IF runs[r].report_num \in reports
                 THEN [runs EXCEPT ![r].report_num = @ + 1]
                 ELSE [runs EXCEPT ![r].pc = "build"]
    /\ UNCHANGED reports

\* Lines 322-330 and builder, lines 202-207: build_html_report opens
\* output_path with mode 'w', which creates the file or truncates the one
\* that is there; a failure before or in the save leaves the directory as
\* it is.  The run returns report_path in both cases.
Save(r) ==
    /\ runs[r].pc = "build"
    /\ \E saved \in BOOLEAN :
         IF saved
           THEN /\ reports' = reports \cup {runs[r].report_num}
                /\ runs' = [runs EXCEPT
                              ![r].pc = "returned",
                              ![r].wrote = TRUE,
                              ![r].overwrote = runs[r].report_num \in reports]
           ELSE /\ runs' = [runs EXCEPT ![r].pc = "returned"]
                /\ UNCHANGED reports

InitRuns == RunsInit /\ IdlePipe /\ IdleClass /\ IdleSample /\ IdleHealth

NextRuns ==
    \/ \E r \in Runs : MakeDirs(r)
         /\ UNCHANGED <<pipeVars, classVars, sampleVars, healthVars>>
    \/ \E r \in Runs : Probe(r)
         /\ UNCHANGED <<pipeVars, classVars, sampleVars, healthVars>>
    \/ \E r \in Runs : Save(r)
         /\ UNCHANGED <<pipeVars, classVars, sampleVars, healthVars>>

SpecRuns == InitRuns /\ [][NextRuns]_vars

\* The run r has fixed its report_path.
Picked(r) == runs[r].pc \in {"build", "returned"}

\* C30: two runs never write the same report file; the number a run picks
\* has every smaller number taken; and no run writes over a report that
\* exists, its own directory's or another run's.
RunsNeverShareReport ==
    /\ \A r1, r2 \in Runs :
         (r1 # r2 /\ runs[r1].wrote /\ runs[r2].wrote) =>
           runs[r1].report_num # runs[r2].report_num
    /\ \A r \in Runs :
         /\ Picked(r) => \A n \in 1..(runs[r].report_num - 1) : n \in reports
         /\ ~runs[r].overwrote

====
